---------------------------- MODULE Spec2Model ----------------------------
(***************************************************************************)
(* A model of the VSL front end of VSLLexer.cpp: the character-level       *)
(* lexer (getToken), the recursive-descent / precedence-climbing parser    *)
(* (ParsePrimary, ParseBinOpRHS, ...) and the top-level driver (MainLoop). *)
(*                                                                         *)
(* The lexer and ParsePrototype have no calls back into the parser and     *)
(* always terminate on a finite input, so they are operators.  Every other *)
(* parse function is run on an explicit call stack, one action per block   *)
(* of code between two calls, so that a loop or a recursion that does not  *)
(* end is a behaviour of the model and not a divergence of its evaluation. *)
(***************************************************************************)
EXTENDS Integers, Sequences, FiniteSets, TLC

VARIABLES
    input,            \* the characters of stdin, fixed once chosen
    pos,              \* how many characters getchar() has handed out
    lastChar,         \* getToken's static lastChar
    identifierStr,    \* static std::string identifierStr
    numVal,           \* static double numVal
    CurTok,           \* static int CurTok
    BinopPrecedence,  \* static std::map<char, int> BinopPrecedence
    stack,            \* the call stack: one record per active function
    ret,              \* the value the last returning function handed back
    log               \* what was written to stderr, in order

vars == <<input, pos, lastChar, identifierStr, numVal, CurTok,
          BinopPrecedence, stack, ret, log>>

lexvars == <<pos, lastChar, identifierStr, numVal, CurTok>>

---------------------------------------------------------------------------
(* Bounds of the model.                                                    *)

MaxOps == 3        \* binary operators in a generated operand/operator chain
MaxParams == 2     \* parameters in a generated prototype
MaxArgs == 3       \* arguments in a generated call
MaxLog == 24       \* stderr lines kept; later ones are dropped
MaxStack == 20     \* frames the call stack holds before the process dies

---------------------------------------------------------------------------
(* Characters.  A character is a one-character string; EOF is getchar()'s  *)
(* end-of-file value.                                                      *)

EOF == "EOF"

Upper == {"A","B","C","D","E","F","G","H","I","J","K","L","M",
          "N","O","P","Q","R","S","T","U","V","W","X","Y","Z"}
Lower == {"a","b","c","d","e","f","g","h","i","j","k","l","m",
          "n","o","p","q","r","s","t","u","v","w","x","y","z"}
DigitSeq == <<"0","1","2","3","4","5","6","7","8","9">>

isspace(c) == c \in {" ", "\t", "\n"}
isalpha(c) == c \in Upper \cup Lower
isdigit(c) == \E i \in 1..10 : DigitSeq[i] = c
isalnum(c) == isalpha(c) \/ isdigit(c)

\* The code of a character that getToken returns as itself.
Ord(c) ==
    CASE c = "(" -> 40 [] c = ")" -> 41 [] c = "*" -> 42 [] c = "+" -> 43
      [] c = "," -> 44 [] c = "-" -> 45 [] c = ":" -> 58 [] c = ";" -> 59
      [] c = "<" -> 60 [] c = "=" -> 61 [] c = "!" -> 33

isascii(t) == t >= 0 /\ t <= 127

tok_eof == -1
tok_func == -2
tok_return == -3
tok_identifier == -4
tok_number == -5
tok_if == -6
tok_then == -7
tok_else == -8
tok_fi == -9
tok_do == -12
tok_while == -13
tok_done == -14
tok_continue == -15
tok_print == -16
tok_var == -17
tok_assign == -18

---------------------------------------------------------------------------
(* stdin and the lexer.                                                    *)

\* getchar() with p characters already read: the character and the new count.
getchar(p) ==
    IF p < Len(input) THEN [c |-> input[p + 1], pos |-> p + 1]
                      ELSE [c |-> EOF, pos |-> p]

\* F applied to the value of x: x is evaluated once, as C++ evaluates the
\* right-hand side of an assignment once.
Value(F(_), x) == CHOOSE r \in {F(v) : v \in {x}} : TRUE

\* while (isspace(lastChar)) lastChar = getchar();
RECURSIVE SkipSpace(_, _)
SkipSpace(lc, p) ==
    IF isspace(lc) THEN Value(LAMBDA g : SkipSpace(g.c, g.pos), getchar(p))
                   ELSE [c |-> lc, pos |-> p]

\* while (isalnum((lastChar = getchar()))) identifierStr += lastChar;
RECURSIVE ReadIdent(_, _)
ReadIdent(id, p) ==
    Value(LAMBDA g :
            IF isalnum(g.c) THEN ReadIdent(Append(id, g.c), g.pos)
                            ELSE [str |-> id, c |-> g.c, pos |-> g.pos],
          getchar(p))

\* do { numStr += lastChar; lastChar = getchar(); } while (digit or '.');
RECURSIVE ReadNum(_, _, _)
ReadNum(numStr, lc, p) ==
    Value(LAMBDA g :
            IF isdigit(g.c) \/ g.c = "."
                THEN ReadNum(Append(numStr, lc), g.c, g.pos)
                ELSE [str |-> Append(numStr, lc), c |-> g.c, pos |-> g.pos],
          getchar(p))

DigitVal(c) == (CHOOSE i \in 1..10 : DigitSeq[i] = c) - 1

\* A decimal value m / 10^e without trailing zeros in the fraction.
RECURSIVE Normal(_, _)
Normal(m, e) ==
    IF e > 0 /\ m % 10 = 0 THEN Normal(m \div 10, e - 1)
                           ELSE [m |-> m, e |-> e]

\* strtod: the longest prefix digits [ '.' digits ]; what follows a second
\* '.' is not converted.  dot tells whether the '.' has been passed.
RECURSIVE strtodFrom(_, _, _, _, _)
strtodFrom(s, i, m, e, dot) ==
    IF i > Len(s) THEN Normal(m, e)
    ELSE IF s[i] = "." THEN
        (IF dot THEN Normal(m, e) ELSE strtodFrom(s, i + 1, m, e, TRUE))
    ELSE strtodFrom(s, i + 1, 10 * m + DigitVal(s[i]),
                    IF dot THEN e + 1 ELSE e, dot)

strtod(s) == strtodFrom(s, 1, 0, 0, FALSE)

kwFUNC == <<"F","U","N","C">>
kwRETURN == <<"R","E","T","U","R","N">>
kwIF == <<"I","F">>
kwELSE == <<"E","L","S","E">>
kwTHEN == <<"T","H","E","N">>
kwFI == <<"F","I">>
kwDO == <<"D","O">>
kwWHILE == <<"W","H","I","L","E">>
kwDONE == <<"D","O","N","E">>
kwCONTINUE == <<"C","O","N","T","I","N","U","E">>
kwPRINT == <<"P","R","I","N","T">>
kwVAR == <<"V","A","R">>
kwASSIGN == <<":","=">>

\* The keyword comparisons of getToken, in the order of the code.
Keyword(id) ==
    CASE id = kwFUNC -> tok_func
      [] id = kwRETURN -> tok_return
      [] id = kwIF -> tok_if
      [] id = kwELSE -> tok_else
      [] id = kwTHEN -> tok_then
      [] id = kwFI -> tok_fi
      [] id = kwDO -> tok_do
      [] id = kwWHILE -> tok_while
      [] id = kwDONE -> tok_done
      [] id = kwCONTINUE -> tok_continue
      [] id = kwPRINT -> tok_print
      [] id = kwVAR -> tok_var
      [] id = kwASSIGN -> tok_assign
      [] OTHER -> tok_identifier

\* The body of getToken, from the lexer state l = [lastChar, pos,
\* identifierStr, numVal, CurTok]: the state after the call, CurTok being
\* the token returned.
getTokenFrom(l) ==
    LET sk == SkipSpace(l.lastChar, l.pos) IN
    IF isalpha(sk.c) THEN
        LET r == ReadIdent(<<sk.c>>, sk.pos) IN
        [lastChar |-> r.c, pos |-> r.pos, identifierStr |-> r.str,
         numVal |-> l.numVal, CurTok |-> Keyword(r.str)]
    ELSE IF isdigit(sk.c) \/ sk.c = "." THEN
        LET r == ReadNum(<<>>, sk.c, sk.pos) IN
        [lastChar |-> r.c, pos |-> r.pos, identifierStr |-> l.identifierStr,
         numVal |-> strtod(r.str), CurTok |-> tok_number]
    ELSE IF sk.c = EOF THEN
        [lastChar |-> EOF, pos |-> sk.pos, identifierStr |-> l.identifierStr,
         numVal |-> l.numVal, CurTok |-> tok_eof]
    ELSE
        LET g == getchar(sk.pos) IN
        [lastChar |-> g.c, pos |-> g.pos, identifierStr |-> l.identifierStr,
         numVal |-> l.numVal, CurTok |-> Ord(sk.c)]

\* getToken() called in the lexer state lx.
getToken(lx) == Value(getTokenFrom, lx)

\* The lexer's variables as one record, and their assignment from one.
Lex == [lastChar |-> lastChar, pos |-> pos, identifierStr |-> identifierStr,
        numVal |-> numVal, CurTok |-> CurTok]

SetLex(lx) ==
    /\ lastChar' = lx.lastChar
    /\ pos' = lx.pos
    /\ identifierStr' = lx.identifierStr
    /\ numVal' = lx.numVal
    /\ CurTok' = lx.CurTok

\* getNextToken(): CurTok = getToken().
getNextToken(lx) == getToken(lx)

---------------------------------------------------------------------------
(* AST nodes.  A unique_ptr is the node it owns, or Null.                  *)

Null == [k |-> "nullptr"]
NumberExprAST(val) == [k |-> "NumberExprAST", val |-> val]
VariableExprAST(Name) == [k |-> "VariableExprAST", Name |-> Name]
BinaryExprAST(Op, LHS, RHS) ==
    [k |-> "BinaryExprAST", Op |-> Op, LHS |-> LHS, RHS |-> RHS]
CallExprAST(callee, args) ==
    [k |-> "CallExprAST", callee |-> callee, args |-> args]
\* make_unique<ExprAST>(p): a bare ExprAST made from p; the node exists
\* whether or not p is null.
ExprAST(p) == [k |-> "ExprAST", from |-> p]
PrototypeAST(Name, Args, IsOperator, Prec) ==
    [k |-> "PrototypeAST", Name |-> Name, Args |-> Args,
     IsOperator |-> IsOperator, Precedence |-> Prec]
FunctionAST(Proto, Body) ==
    [k |-> "FunctionAST", Proto |-> Proto, Body |-> Body]

AnonExpr == <<"_","_","a","n","o","n","_","e","x","p","r">>

---------------------------------------------------------------------------
(* stderr.                                                                 *)

Write(l, s) == IF Len(l) < MaxLog THEN Append(l, s) ELSE l

LogError(l, s) == Write(l, "Error: " \o s)

RECURSIVE WriteAll(_, _)
WriteAll(l, ss) ==
    IF ss = <<>> THEN l ELSE WriteAll(Write(l, Head(ss)), Tail(ss))

---------------------------------------------------------------------------
(* The precedence table.                                                   *)

\* main's five assignments, on the empty map.
InstallBinops ==
    (Ord("=") :> 2) @@ (Ord("<") :> 10) @@ (Ord("+") :> 20)
        @@ (Ord("-") :> 20) @@ (Ord("*") :> 40)

\* std::map::operator[]: a key that is absent is added with the value 0.
MapIndex(table, key) ==
    IF key \in DOMAIN table THEN table ELSE table @@ (key :> 0)

\* GetTokPrecedence() with CurTok = tok: the precedence returned and the
\* table as the lookup leaves it.
GetTokPrecedence(tok, table) ==
    IF ~isascii(tok) THEN [TokPrec |-> -1, table |-> table]
    ELSE LET t == MapIndex(table, tok) IN
         [TokPrec |-> IF t[tok] <= 0 THEN -1 ELSE t[tok], table |-> t]

---------------------------------------------------------------------------
(* ParsePrototype: it calls nothing but the lexer.                         *)

\* A slip in the order: the new element goes to the front.
push_front(v, x) == <<x>> \o v

\* std::vector::push_back.
push_back(v, x) == Append(v, x)

\* while (getNextToken() == tok_identifier) ArgNames.push_back(identifierStr);
RECURSIVE ReadArgNames(_, _)
ReadArgNames(lx, ArgNames) ==
    Value(LAMBDA n :
            IF n.CurTok = tok_identifier
                THEN ReadArgNames(n, push_back(ArgNames, n.identifierStr))
                ELSE [lx |-> n, ArgNames |-> ArgNames],
          getNextToken(lx))

\* The prototype (or Null), the lexer state it leaves and what it logged.
ParsePrototype(lx) ==
    IF lx.CurTok # tok_identifier THEN
        [Proto |-> Null, lx |-> lx,
         err |-> <<"Error: Expected function name in prototype">>]
    ELSE
        LET FnName == lx.identifierStr
            l1 == getNextToken(lx) IN
        IF l1.CurTok # Ord("(") THEN
            [Proto |-> Null, lx |-> l1,
             err |-> <<"Error: Expected '(' in prototype">>]
        ELSE
            LET a == ReadArgNames(l1, <<>>) IN
            IF a.lx.CurTok # Ord(")") THEN
                [Proto |-> Null, lx |-> a.lx,
                 err |-> <<"Error: Expected ')' in prototype">>]
            ELSE
                \* Kind is 0: the operand-count check cannot fail.
                [Proto |-> PrototypeAST(FnName, a.ArgNames, FALSE, 30),
                 lx |-> getNextToken(a.lx), err |-> <<>>]

---------------------------------------------------------------------------
(* The call stack.                                                         *)

Top == stack[Len(stack)]
Under == SubSeq(stack, 1, Len(stack) - 1)
At(fn, pc) == Len(stack) > 0 /\ Top.fn = fn /\ Top.pc = pc

\* The process after the stack is exhausted: it is killed, nothing runs.
Killed == <<[fn |-> "SIGSEGV", pc |-> "stack overflow"]>>

\* A new activation of fn, at its first statement.
Frame(fn) ==
    CASE fn = "ParseIdentifierExpr" ->
            [fn |-> fn, pc |-> "start", IdName |-> <<>>, Args |-> <<>>]
      [] fn \in {"ParseIfExpr", "ParseWhileExpr"} ->
            [fn |-> fn, pc |-> "start", condition |-> Null]
      [] fn = "ParseDefinition" ->
            [fn |-> fn, pc |-> "start", Proto |-> Null]
      [] OTHER -> [fn |-> fn, pc |-> "start"]

BinOpRHSFrame(ExprPrec, LHS) ==
    [fn |-> "ParseBinOpRHS", pc |-> "loop", ExprPrec |-> ExprPrec,
     LHS |-> LHS, TokPrec |-> 0, BinOp |-> 0]

\* The running function becomes `caller` and calls `callee`.
Call(caller, callee) ==
    stack' = IF Len(stack) >= MaxStack THEN Killed
             ELSE Under \o <<caller, callee>>

\* The running function goes on as `frame`.
Goto(frame) == stack' = Under \o <<frame>>

Return(v) == stack' = Under /\ ret' = v

ReturnVoid == stack' = Under /\ UNCHANGED ret

---------------------------------------------------------------------------
(* main and the top-level loop.                                            *)

\* main: install the operators, prime the first token, run MainLoop.
main ==
    /\ At("main", "start")
    /\ BinopPrecedence' = InstallBinops
    /\ log' = Write(log, "ready> ")
    /\ SetLex(getNextToken(Lex))
    /\ Call([Top EXCEPT !.pc = "return"], [fn |-> "MainLoop", pc |-> "loop"])
    /\ UNCHANGED <<input, ret>>

\* main: return 0 once MainLoop has returned.
mainReturn ==
    /\ At("main", "return")
    /\ stack' = <<>>
    /\ UNCHANGED <<input, lexvars, BinopPrecedence, ret, log>>

\* MainLoop: one turn of while (true) { prompt; switch (CurTok) ... }.
MainLoop ==
    /\ At("MainLoop", "loop")
    /\ log' = Write(log, "ready> ")
    /\ \/ /\ CurTok = tok_eof
          /\ ReturnVoid
          /\ UNCHANGED lexvars
       \/ /\ CurTok = Ord(";")
          /\ SetLex(getNextToken(Lex))
          /\ UNCHANGED <<stack, ret>>
       \/ /\ CurTok = tok_func
          /\ Call(Top, Frame("HandleDefinition"))
          /\ UNCHANGED <<lexvars, ret>>
       \/ /\ CurTok \notin {tok_eof, Ord(";"), tok_func}
          /\ Call(Top, Frame("HandleTopLevelExpression"))
          /\ UNCHANGED <<lexvars, ret>>
    /\ UNCHANGED <<input, BinopPrecedence>>

HandleDefinition ==
    /\ At("HandleDefinition", "start")
    /\ Call([Top EXCEPT !.pc = "parsed"], Frame("ParseDefinition"))
    /\ UNCHANGED <<input, lexvars, BinopPrecedence, ret, log>>

\* A slip in the recovery: no token is skipped after a failure.
HandleDefinitionParsedNoSkip ==
    /\ At("HandleDefinition", "parsed")
    /\ IF ret # Null
         THEN log' = Write(log, "Parsed a function definition.")
         ELSE UNCHANGED log
    /\ ReturnVoid
    /\ UNCHANGED <<input, lexvars, BinopPrecedence>>

\* if (ParseDefinition()) report; else skip a token.
HandleDefinitionParsed ==
    /\ At("HandleDefinition", "parsed")
    /\ IF ret # Null
         THEN /\ log' = Write(log, "Parsed a function definition.")
              /\ UNCHANGED lexvars
         ELSE /\ SetLex(getNextToken(Lex))
              /\ UNCHANGED log
    /\ ReturnVoid
    /\ UNCHANGED <<input, BinopPrecedence>>

\* ParseDefinition: eat FUNC, parse the prototype, call for the body.
ParseDefinition ==
    /\ At("ParseDefinition", "start")
    /\ LET p == ParsePrototype(getNextToken(Lex)) IN
        /\ SetLex(p.lx)
        /\ log' = WriteAll(log, p.err)
        /\ IF p.Proto = Null
             THEN Return(Null)
             ELSE /\ Call([Top EXCEPT !.pc = "body", !.Proto = p.Proto],
                          Frame("ParseExpression"))
                  /\ UNCHANGED ret
    /\ UNCHANGED <<input, BinopPrecedence>>

ParseDefinitionBody ==
    /\ At("ParseDefinition", "body")
    /\ IF ret # Null THEN Return(FunctionAST(Top.Proto, ret))
                     ELSE Return(Null)
    /\ UNCHANGED <<input, lexvars, BinopPrecedence, log>>

HandleTopLevelExpression ==
    /\ At("HandleTopLevelExpression", "start")
    /\ Call([Top EXCEPT !.pc = "parsed"], Frame("ParseTopLevelExpr"))
    /\ UNCHANGED <<input, lexvars, BinopPrecedence, ret, log>>

HandleTopLevelExpressionParsed ==
    /\ At("HandleTopLevelExpression", "parsed")
    /\ IF ret # Null
         THEN /\ log' = Write(log, "Parsed a top-level xepr")
              /\ UNCHANGED lexvars
         ELSE /\ SetLex(getNextToken(Lex))
              /\ UNCHANGED log
    /\ ReturnVoid
    /\ UNCHANGED <<input, BinopPrecedence>>

ParseTopLevelExpr ==
    /\ At("ParseTopLevelExpr", "start")
    /\ Call([Top EXCEPT !.pc = "expr"], Frame("ParseExpression"))
    /\ UNCHANGED <<input, lexvars, BinopPrecedence, ret, log>>

ParseTopLevelExprExpr ==
    /\ At("ParseTopLevelExpr", "expr")
    /\ IF ret # Null
         THEN Return(FunctionAST(PrototypeAST(AnonExpr, <<>>, FALSE, 0), ret))
         ELSE Return(Null)
    /\ UNCHANGED <<input, lexvars, BinopPrecedence, log>>

---------------------------------------------------------------------------
(* Expressions.                                                            *)

ParseExpression ==
    /\ At("ParseExpression", "start")
    /\ Call([Top EXCEPT !.pc = "lhs"], Frame("ParsePrimary"))
    /\ UNCHANGED <<input, lexvars, BinopPrecedence, ret, log>>

\* if (!LHS) return nullptr; return ParseBinOpRHS(0, std::move(LHS));
ParseExpressionLHS ==
    /\ At("ParseExpression", "lhs")
    /\ IF ret = Null
         THEN Return(Null)
         ELSE /\ Call([Top EXCEPT !.pc = "return"], BinOpRHSFrame(0, ret))
              /\ UNCHANGED ret
    /\ UNCHANGED <<input, lexvars, BinopPrecedence, log>>

\* return ParseBinOpRHS(...); in ParseExpression and return ParsePrimary();
\* in ParsePrintExpr: hand the callee's result on.
ReturnCallResult ==
    /\ Len(stack) > 0
    /\ Top.fn \in {"ParseExpression", "ParsePrintExpr"}
    /\ Top.pc = "return"
    /\ Return(ret)
    /\ UNCHANGED <<input, lexvars, BinopPrecedence, log>>

\* The precedence test a ParseBinOpRHS turn starts with.
BelowThreshold(TokPrec, ExprPrec) == TokPrec < ExprPrec

\* The test that sends the right operand into a nested ParseBinOpRHS.
BindsTighter(TokPrec, NextPrec) == TokPrec < NextPrec

\* A slip in the threshold: the nested call also takes the operators of
\* the same precedence.
NestedPrecSame(TokPrec) == TokPrec

\* The threshold of that nested ParseBinOpRHS.
NestedPrec(TokPrec) == TokPrec + 1

\* ParseBinOpRHS: the head of a turn of while (true), to the ParsePrimary call.
ParseBinOpRHS ==
    /\ At("ParseBinOpRHS", "loop")
    /\ LET g == GetTokPrecedence(CurTok, BinopPrecedence) IN
        /\ BinopPrecedence' = g.table
        /\ IF BelowThreshold(g.TokPrec, Top.ExprPrec)
             THEN /\ Return(Top.LHS)
                  /\ UNCHANGED lexvars
             ELSE /\ SetLex(getNextToken(Lex))
                  /\ Call([Top EXCEPT !.pc = "rhs", !.TokPrec = g.TokPrec,
                                      !.BinOp = CurTok],
                          Frame("ParsePrimary"))
                  /\ UNCHANGED ret
    /\ UNCHANGED <<input, log>>

\* ParseBinOpRHS: after the ParsePrimary call.
ParseBinOpRHSPrimary ==
    /\ At("ParseBinOpRHS", "rhs")
    /\ IF ret = Null
         THEN /\ Return(Null)
              /\ UNCHANGED BinopPrecedence
         ELSE LET g == GetTokPrecedence(CurTok, BinopPrecedence) IN
              /\ BinopPrecedence' = g.table
              /\ IF BindsTighter(Top.TokPrec, g.TokPrec)
                   THEN /\ Call([Top EXCEPT !.pc = "nested"],
                                BinOpRHSFrame(NestedPrec(Top.TokPrec), ret))
                        /\ UNCHANGED ret
                   ELSE /\ Goto([Top EXCEPT !.pc = "loop",
                            !.LHS = BinaryExprAST(Top.BinOp, Top.LHS, ret)])
                        /\ UNCHANGED ret
    /\ UNCHANGED <<input, lexvars, log>>

\* ParseBinOpRHS: after the nested ParseBinOpRHS call.
ParseBinOpRHSNested ==
    /\ At("ParseBinOpRHS", "nested")
    /\ IF ret = Null
         THEN Return(Null)
         ELSE /\ Goto([Top EXCEPT !.pc = "loop",
                          !.LHS = BinaryExprAST(Top.BinOp, Top.LHS, ret)])
              /\ UNCHANGED ret
    /\ UNCHANGED <<input, lexvars, BinopPrecedence, log>>

ParseNumberExpr ==
    /\ At("ParseNumberExpr", "start")
    /\ SetLex(getNextToken(Lex))
    /\ Return(NumberExprAST(numVal))
    /\ UNCHANGED <<input, BinopPrecedence, log>>

ParseParenExpr ==
    /\ At("ParseParenExpr", "start")
    /\ SetLex(getNextToken(Lex))
    /\ Call([Top EXCEPT !.pc = "v"], Frame("ParseExpression"))
    /\ UNCHANGED <<input, BinopPrecedence, ret, log>>

ParseParenExprV ==
    /\ At("ParseParenExpr", "v")
    /\ IF ret = Null
         THEN /\ Return(Null)
              /\ UNCHANGED <<lexvars, log>>
         ELSE IF CurTok # Ord(")")
         THEN /\ log' = LogError(log, "expected ')'")
              /\ Return(Null)
              /\ UNCHANGED lexvars
         ELSE /\ SetLex(getNextToken(Lex))
              /\ Return(ret)
              /\ UNCHANGED log
    /\ UNCHANGED <<input, BinopPrecedence>>

\* ParseIdentifierExpr, to the first argument's ParseExpression call.
ParseIdentifierExpr ==
    /\ At("ParseIdentifierExpr", "start")
    /\ LET IdName == identifierStr
           l1 == getNextToken(Lex)
           l2 == getNextToken(l1) IN
       IF l1.CurTok # Ord("(")
         THEN /\ SetLex(l1)
              /\ Return(VariableExprAST(IdName))
         ELSE IF l2.CurTok # Ord(")")
         THEN /\ SetLex(l2)
              /\ Call([Top EXCEPT !.pc = "arg", !.IdName = IdName],
                      Frame("ParseExpression"))
              /\ UNCHANGED ret
         ELSE /\ SetLex(getNextToken(l2))
              /\ Return(CallExprAST(IdName, <<>>))
    /\ UNCHANGED <<input, BinopPrecedence, log>>

\* A slip in the separator test: the comma is eaten where there is one and
\* not asked for where there is none.
ParseIdentifierExprArgAnySeparator ==
    /\ At("ParseIdentifierExpr", "arg")
    /\ IF ret = Null
         THEN /\ Return(Null)
              /\ UNCHANGED <<lexvars, log>>
         ELSE IF CurTok = Ord(")")
         THEN /\ SetLex(getNextToken(Lex))
              /\ Return(CallExprAST(Top.IdName, push_back(Top.Args, ret)))
              /\ UNCHANGED log
         ELSE /\ SetLex(IF CurTok = Ord(",") THEN getNextToken(Lex) ELSE Lex)
              /\ Call([Top EXCEPT !.Args = push_back(Top.Args, ret)],
                      Frame("ParseExpression"))
              /\ UNCHANGED <<ret, log>>
    /\ UNCHANGED <<input, BinopPrecedence>>

\* ParseIdentifierExpr: after an argument's ParseExpression call.
ParseIdentifierExprArg ==
    /\ At("ParseIdentifierExpr", "arg")
    /\ IF ret = Null
         THEN /\ Return(Null)
              /\ UNCHANGED <<lexvars, log>>
         ELSE IF CurTok = Ord(")")
         THEN /\ SetLex(getNextToken(Lex))
              /\ Return(CallExprAST(Top.IdName, push_back(Top.Args, ret)))
              /\ UNCHANGED log
         ELSE IF CurTok # Ord(",")
         THEN /\ log' = LogError(log, "Expected ')' or ',' in argument list")
              /\ Return(Null)
              /\ UNCHANGED lexvars
         ELSE /\ SetLex(getNextToken(Lex))
              /\ Call([Top EXCEPT !.Args = push_back(Top.Args, ret)],
                      Frame("ParseExpression"))
              /\ UNCHANGED <<ret, log>>
    /\ UNCHANGED <<input, BinopPrecedence>>

\* The function a case of ParsePrimary's switch calls; "" for default.
PrimaryCase(tok) ==
    CASE tok = tok_identifier -> "ParseIdentifierExpr"
      [] tok = tok_number -> "ParseNumberExpr"
      [] tok = Ord("(") -> "ParseParenExpr"
      [] tok = tok_if -> "ParseIfExpr"
      [] tok = tok_var -> "ParseVarExpr"
      [] tok = tok_while -> "ParseWhileExpr"
      [] tok = tok_return -> "ParseReturnExpr"
      [] tok = tok_print -> "ParsePrintExpr"
      [] OTHER -> ""

\* ParsePrimary: the switch.  After the call its pc names the case taken.
ParsePrimary ==
    /\ At("ParsePrimary", "start")
    /\ IF PrimaryCase(CurTok) = ""
         THEN /\ log' = LogError(log, "unknown token when expecting an expression")
              /\ Return(Null)
         ELSE /\ Call([Top EXCEPT !.pc = PrimaryCase(CurTok)],
                      Frame(PrimaryCase(CurTok)))
              /\ UNCHANGED <<ret, log>>
    /\ UNCHANGED <<input, lexvars, BinopPrecedence>>

\* ParsePrimary: return what the case's function returned.
ParsePrimaryReturn ==
    /\ Len(stack) > 0
    /\ Top.fn = "ParsePrimary"
    /\ Top.pc # "start"
    /\ Return(ret)
    /\ UNCHANGED <<input, lexvars, BinopPrecedence, log>>

---------------------------------------------------------------------------
(* IF, VAR, WHILE, RETURN, PRINT.                                          *)

ParseIfExpr ==
    /\ At("ParseIfExpr", "start")
    /\ SetLex(getNextToken(Lex))
    /\ Call([Top EXCEPT !.pc = "condition"], Frame("ParsePrimary"))
    /\ UNCHANGED <<input, BinopPrecedence, ret, log>>

\* auto condition = ParsePrimary(); if (condition) ... else ...
ParseIfExprCondition ==
    /\ At("ParseIfExpr", "condition")
    /\ Goto([Top EXCEPT !.condition = ret,
                        !.pc = IF ret # Null THEN "then" ELSE "skip"])
    /\ UNCHANGED <<input, lexvars, BinopPrecedence, ret, log>>

\* One turn of the while (1) of the branch where the condition parsed.
ParseIfExprThen ==
    /\ At("ParseIfExpr", "then")
    /\ LET l1 == getNextToken(Lex) IN
       IF l1.CurTok = tok_else
         THEN /\ SetLex(l1)
              /\ Goto([Top EXCEPT !.pc = "fi"])
              /\ UNCHANGED log
         ELSE IF l1.CurTok # tok_then
         THEN /\ SetLex(l1)
              /\ log' = Write(log, "Lack of key word: then")
              /\ Call(Top, Frame("ParsePrimary"))
         ELSE /\ SetLex(getNextToken(l1))
              /\ Call(Top, Frame("ParsePrimary"))
              /\ UNCHANGED log
    /\ UNCHANGED <<input, BinopPrecedence, ret>>

\* while (CurTok != tok_fi) getNextToken(); break; and the return.
ParseIfExprFi ==
    /\ At("ParseIfExpr", "fi")
    /\ IF CurTok # tok_fi
         THEN /\ SetLex(getNextToken(Lex))
              /\ UNCHANGED <<stack, ret>>
         ELSE /\ Return(ExprAST(Top.condition))
              /\ UNCHANGED lexvars
    /\ UNCHANGED <<input, BinopPrecedence, log>>

\* One turn of the while (1) of the branch where the condition failed, to
\* its test of tok_fi.
ParseIfExprSkip ==
    /\ At("ParseIfExpr", "skip")
    /\ LET l1 == getNextToken(Lex) IN
       IF l1.CurTok = tok_else
         THEN /\ SetLex(getNextToken(l1))
              /\ Call([Top EXCEPT !.pc = "skipfi"], Frame("ParsePrimary"))
         ELSE /\ SetLex(l1)
              /\ Goto([Top EXCEPT !.pc = "skipfi"])
    /\ UNCHANGED <<input, BinopPrecedence, ret, log>>

\* if (CurTok == tok_fi) break; and the return.
ParseIfExprSkipFi ==
    /\ At("ParseIfExpr", "skipfi")
    /\ IF CurTok = tok_fi
         THEN Return(ExprAST(Top.condition))
         ELSE /\ Goto([Top EXCEPT !.pc = "skip"])
              /\ UNCHANGED ret
    /\ UNCHANGED <<input, lexvars, BinopPrecedence, log>>

\* getNextToken(); return make_unique<VariableExprAST>(CurTok);
ParseVarExpr ==
    /\ At("ParseVarExpr", "start")
    /\ LET l1 == getNextToken(Lex) IN
        /\ SetLex(l1)
        /\ Return(VariableExprAST(l1.CurTok))
    /\ UNCHANGED <<input, BinopPrecedence, log>>

ParseWhileExpr ==
    /\ At("ParseWhileExpr", "start")
    /\ SetLex(getNextToken(Lex))
    /\ Call([Top EXCEPT !.pc = "condition"], Frame("ParsePrimary"))
    /\ UNCHANGED <<input, BinopPrecedence, ret, log>>

ParseWhileExprCondition ==
    /\ At("ParseWhileExpr", "condition")
    /\ Goto([Top EXCEPT !.condition = ret,
                        !.pc = IF ret # Null THEN "do" ELSE "skip"])
    /\ UNCHANGED <<input, lexvars, BinopPrecedence, ret, log>>

\* One turn of the while (1) of the branch where the condition parsed, to
\* its test of tok_done.
ParseWhileExprDo ==
    /\ At("ParseWhileExpr", "do")
    /\ LET l1 == getNextToken(Lex) IN
       IF l1.CurTok = tok_do
         THEN /\ SetLex(getNextToken(getNextToken(l1)))
              /\ Call([Top EXCEPT !.pc = "done"], Frame("ParsePrimary"))
         ELSE /\ SetLex(l1)
              /\ Goto([Top EXCEPT !.pc = "done"])
    /\ UNCHANGED <<input, BinopPrecedence, ret, log>>

\* if (CurTok == tok_done) break; and the return.
ParseWhileExprDone ==
    /\ At("ParseWhileExpr", "done")
    /\ IF CurTok = tok_done
         THEN Return(ExprAST(Top.condition))
         ELSE /\ Goto([Top EXCEPT !.pc = "do"])
              /\ UNCHANGED ret
    /\ UNCHANGED <<input, lexvars, BinopPrecedence, log>>

\* One turn of the while (1) of the branch where the condition failed.
ParseWhileExprSkip ==
    /\ At("ParseWhileExpr", "skip")
    /\ LET l1 == getNextToken(Lex) IN
        /\ SetLex(l1)
        /\ IF l1.CurTok = tok_done
             THEN Return(ExprAST(Top.condition))
             ELSE UNCHANGED <<stack, ret>>
    /\ UNCHANGED <<input, BinopPrecedence, log>>

ParseReturnExpr ==
    /\ At("ParseReturnExpr", "start")
    /\ SetLex(getNextToken(Lex))
    /\ Call([Top EXCEPT !.pc = "returnVal"], Frame("ParsePrimary"))
    /\ UNCHANGED <<input, BinopPrecedence, ret, log>>

\* return make_unique<ExprAST>(returnVal);
ParseReturnExprVal ==
    /\ At("ParseReturnExpr", "returnVal")
    /\ Return(ExprAST(ret))
    /\ UNCHANGED <<input, lexvars, BinopPrecedence, log>>

\* return ParsePrimary();  with CurTok still tok_print
ParsePrintExpr ==
    /\ At("ParsePrintExpr", "start")
    /\ Call([Top EXCEPT !.pc = "return"], Frame("ParsePrimary"))
    /\ UNCHANGED <<input, lexvars, BinopPrecedence, ret, log>>

---------------------------------------------------------------------------
(* Inputs.  A program is a sequence of words; stdin holds the words with a *)
(* space between two of them.                                              *)

RECURSIVE Join(_)
Join(ws) ==
    IF ws = <<>> THEN <<>>
    ELSE IF Len(ws) = 1 THEN ws[1]
    ELSE ws[1] \o <<" ">> \o Join(Tail(ws))

RECURSIVE Flatten(_)
Flatten(ss) == IF ss = <<>> THEN <<>> ELSE Head(ss) \o Flatten(Tail(ss))

SeqsUpTo(S, n) == UNION {[1..k -> S] : k \in 0..n}

Names == <<"a","b","c","d","e","g","h","i","j","k">>
OpChars == {"=", "<", "+", "-", "*"}

\* x1 op1 x2 ... opk x(k+1): identifiers a, b, ... or numbers 1, 2, ...
Chain(ops, numeric) ==
    Flatten([i \in 1..(2 * Len(ops) + 1) |->
        IF i % 2 = 0 THEN <<<<ops[i \div 2]>>>>
        ELSE IF numeric THEN <<<<DigitSeq[(i + 1) \div 2 + 1]>>>>
        ELSE <<<<Names[(i + 1) \div 2]>>>>])

ChainPrograms ==
    {Chain(ops, numeric) : ops \in SeqsUpTo(OpChars, MaxOps),
                           numeric \in BOOLEAN}

wa == <<"a">>
wb == <<"b">>
wf == <<"f">>
wg == <<"g">>
wx == <<"x">>
wy == <<"y">>
w1 == <<"1">>
w2 == <<"2">>
w3 == <<"3">>
wadd == <<"a","d","d">>
LP == <<"(">>
RP == <<")">>
COMMA == <<",">>
SEMI == <<";">>
PLUS == <<"+">>

\* Bodies of generated definitions: three that parse and two that do not.
Bodies == {<<w1>>, <<wa, PLUS, wb>>, <<wg, LP, wa, RP>>, <<RP>>, <<LP, w1>>}

\* FUNC name ( params ) body, and the same with one of the name, the '('
\* and the ')' left out.
Definition(name, params, body, without) ==
    <<kwFUNC>>
      \o (IF without = "name" THEN <<>> ELSE <<name>>)
      \o (IF without = "(" THEN <<>> ELSE <<LP>>)
      \o params
      \o (IF without = ")" THEN <<>> ELSE <<RP>>)
      \o body

DefinitionPrograms ==
    {Definition(name, params, body, without) :
        name \in {wf, wadd}, params \in SeqsUpTo({wa, wb}, MaxParams),
        body \in Bodies, without \in {"", "name", "(", ")"}}

ArgForms == {<<w1>>, <<wa>>, <<w2, PLUS, wb>>}

\* The words between the parentheses of a call: the arguments, a comma
\* after each but the last; after the one numbered `gap` there is none.
RECURSIVE ArgWords(_, _, _)
ArgWords(args, i, gap) ==
    IF i > Len(args) THEN <<>>
    ELSE args[i]
           \o (IF i < Len(args) /\ i # gap THEN <<COMMA>> ELSE <<>>)
           \o ArgWords(args, i + 1, gap)

\* f ( args ) ; in the forms: as it should be, a comma missing after the
\* first argument, a comma after the last, no closing parenthesis.
CallForm(args, form) ==
    <<wf, LP>>
      \o ArgWords(args, 1, IF form = "gap" THEN 1 ELSE 0)
      \o (IF form = "trailing" THEN <<COMMA>> ELSE <<>>)
      \o (IF form = "open" THEN <<>> ELSE <<RP>>)
      \o <<SEMI>>

CallPrograms ==
    {CallForm(args, form) : args \in SeqsUpTo(ArgForms, MaxArgs),
                            form \in {"", "gap", "trailing", "open"}}
      \cup {<<wf>>, <<wf, SEMI>>, <<wf, PLUS, w1>>, <<wf, LP, RP, PLUS, w1>>}

\* Definitions that do not parse and end at the token the parse fails on.
CleanMalformed ==
    {<<kwFUNC, w1>>, <<kwFUNC, wf, w1>>, <<kwFUNC, wf, LP, wa, SEMI>>,
     <<kwFUNC, wf, LP, RP, wa, PLUS, RP>>}

\* Definitions that do not parse: those, and two that go on after that token.
Malformed ==
    CleanMalformed
        \cup {<<kwFUNC, LP, wa, RP, w1>>, <<kwFUNC, wf, LP, wa, w1, RP, wa>>}

ValidDefinition == <<kwFUNC, wg, LP, wa, wb, RP, wa, PLUS, wb>>

RecoveryPrograms ==
    {m1 \o m2 \o ValidDefinition : m1 \in Malformed, m2 \in Malformed}

StatementPrograms ==
    {<<kwIF, wx, kwTHEN, w1, kwFI>>,
     <<kwIF, wx, kwTHEN, w1, kwFI, SEMI, wy>>,
     <<kwIF, wx, kwTHEN, w1, kwELSE, w2, kwFI>>,
     <<kwIF, wx, kwTHEN, w1, kwELSE, w2, kwFI, SEMI, wy>>,
     <<kwIF, wx, w1, kwELSE, w2, kwFI, SEMI>>,
     <<kwIF, wx, kwTHEN, kwELSE, w1, kwFI>>,
     <<kwIF, wx, wy, kwTHEN, w1, w2, kwELSE, w3, kwFI, SEMI>>,
     <<kwIF, wx, kwTHEN, w1>>,
     <<kwIF, wx, kwTHEN, kwELSE, w1>>,
     <<kwIF, RP, kwFI>>,
     <<kwIF, RP, kwELSE, w1, kwFI, SEMI>>,
     <<kwIF, RP, kwTHEN, w1, kwELSE, kwFI>>,
     <<kwIF, RP>>,
     <<kwWHILE, wx, kwDO, w1, kwDONE>>,
     <<kwWHILE, wx, kwDO, w1, kwDONE, SEMI, wy>>,
     <<kwWHILE, wx, wy, kwDO, wa, wb, w1, kwDONE, SEMI>>,
     <<kwWHILE, wx, kwDO, w1>>,
     <<kwWHILE, RP, kwDO, w1, kwDONE, SEMI>>,
     <<kwWHILE, RP, kwDO>>,
     <<kwVAR, wx>>,
     <<kwVAR, wx, SEMI, wy>>,
     <<kwVAR, wx, <<":","=">>, w1>>,
     <<kwRETURN, wx>>,
     <<kwRETURN, wx, SEMI, wy>>,
     <<kwRETURN, RP>>,
     <<kwRETURN>>,
     <<kwFUNC, wf, LP, RP, kwRETURN, RP>>,
     <<kwPRINT, wx>>,
     <<kwPRINT>>,
     <<LP, w1, RP>>,
     <<LP, w1, RP, SEMI, wy>>,
     <<LP, wa, PLUS, w2, RP, <<"*">>, w3>>,
     <<LP, w1>>,
     <<w1, SEMI, w2>>,
     <<wx, <<":","=">>, w1>>,
     <<<<"a",":","=","1">>>>,
     <<<<":","=">>>>,
     <<<<"1",".","5">>, PLUS, <<".","5">>>>,
     <<<<"1",".","2",".","3">>>>,
     <<<<"1","0">>, <<"\n">>, <<"\t">>, <<"x","2">>>>,
     <<kwCONTINUE>>,
     <<<<"!">>, wx>>,
     <<wa, PLUS, wb, <<"*">>, <<"c">>, <<"-">>, <<"d">>>>,
     <<wf, LP, w1, COMMA, wa, RP>>,
     <<kwFUNC, wadd, LP, wa, wb, RP, wa, PLUS, wb, SEMI, kwFUNC, w1>>,
     <<>>}

Programs ==
    ChainPrograms \cup DefinitionPrograms \cup CallPrograms
        \cup RecoveryPrograms \cup StatementPrograms

---------------------------------------------------------------------------
(* The specification.                                                      *)

Init ==
    /\ input \in {Join(ws) : ws \in Programs}
    /\ pos = 0
    /\ lastChar = " "
    /\ identifierStr = <<>>
    /\ numVal = [m |-> 0, e |-> 0]
    /\ CurTok = 0
    /\ BinopPrecedence = [c \in {} |-> 0]
    /\ stack = <<[fn |-> "main", pc |-> "start"]>>
    /\ ret = Null
    /\ log = <<>>

Next ==
    \/ main
    \/ mainReturn
    \/ MainLoop
    \/ HandleDefinition
    \/ HandleDefinitionParsed
    \/ ParseDefinition
    \/ ParseDefinitionBody
    \/ HandleTopLevelExpression
    \/ HandleTopLevelExpressionParsed
    \/ ParseTopLevelExpr
    \/ ParseTopLevelExprExpr
    \/ ParseExpression
    \/ ParseExpressionLHS
    \/ ReturnCallResult
    \/ ParseBinOpRHS
    \/ ParseBinOpRHSPrimary
    \/ ParseBinOpRHSNested
    \/ ParseNumberExpr
    \/ ParseParenExpr
    \/ ParseParenExprV
    \/ ParseIdentifierExpr
    \/ ParseIdentifierExprArg
    \/ ParsePrimary
    \/ ParsePrimaryReturn
    \/ ParseIfExpr
    \/ ParseIfExprCondition
    \/ ParseIfExprThen
    \/ ParseIfExprFi
    \/ ParseIfExprSkip
    \/ ParseIfExprSkipFi
    \/ ParseVarExpr
    \/ ParseWhileExpr
    \/ ParseWhileExprCondition
    \/ ParseWhileExprDo
    \/ ParseWhileExprDone
    \/ ParseWhileExprSkip
    \/ ParseReturnExpr
    \/ ParseReturnExprVal
    \/ ParsePrintExpr

Spec == Init /\ [][Next]_vars

\* The same program on the inputs of StatementPrograms alone.  The process
\* is one thread: a step that can be taken is taken.
InitStatements ==
    /\ input \in {Join(ws) : ws \in StatementPrograms}
    /\ pos = 0
    /\ lastChar = " "
    /\ identifierStr = <<>>
    /\ numVal = [m |-> 0, e |-> 0]
    /\ CurTok = 0
    /\ BinopPrecedence = [c \in {} |-> 0]
    /\ stack = <<[fn |-> "main", pc |-> "start"]>>
    /\ ret = Null
    /\ log = <<>>

FairSpec == InitStatements /\ [][Next]_vars /\ WF_vars(Next)

---------------------------------------------------------------------------
(* What the properties below are stated with.                              *)

LexStart == [lastChar |-> " ", pos |-> 0, identifierStr |-> <<>>,
             numVal |-> [m |-> 0, e |-> 0], CurTok |-> 0]

\* The lexer states after each token of the input, the first tok_eof last.
RECURSIVE LexFrom(_)
LexFrom(lx) ==
    LET t == getToken(lx) IN
    IF t.CurTok = tok_eof THEN <<t>> ELSE <<t>> \o LexFrom(t)

Tokens == LexFrom(LexStart)

\* The lookahead is the i-th token of the input.
LookaheadIs(i) == i \in 1..Len(Tokens) /\ Lex = Tokens[i]

\* The prompts written so far: main writes one, MainLoop one a turn.
Prompts == Cardinality({i \in 1..Len(log) : log[i] = "ready> "})

\* The first top-level unit is being handled.
FirstUnit == Prompts = 2

Num(n) == NumberExprAST([m |-> n, e |-> 0])
Var(w) == VariableExprAST(w)

IsOperand(t) == t.CurTok \in {tok_number, tok_identifier}
Leaf(t) == IF t.CurTok = tok_number THEN NumberExprAST(t.numVal)
                                    ELSE VariableExprAST(t.identifierStr)
IsLeaf(n) == n.k \in {"NumberExprAST", "VariableExprAST"}

---------------------------------------------------------------------------
(* C1: precedence and associativity.                                       *)

\* The table the claim is stated with.
StandardPrecedence(op) ==
    CASE op = Ord("=") -> 2 [] op = Ord("<") -> 10 [] op = Ord("+") -> 20
      [] op = Ord("-") -> 20 [] op = Ord("*") -> 40

OpCodes == {Ord(c) : c \in OpChars}

\* operand (op operand)* and the end of the input.
IsChain(T) ==
    /\ Len(T) % 2 = 0
    /\ \A i \in 1..(Len(T) - 1) :
          IF i % 2 = 1 THEN IsOperand(T[i]) ELSE T[i].CurTok \in OpCodes

ChainItems(T) ==
    [i \in 1..(Len(T) - 1) |->
        IF i % 2 = 1 THEN Leaf(T[i]) ELSE [op |-> T[i].CurTok]]

\* The operands and operators of a tree, left to right.
RECURSIVE InOrder(_)
InOrder(n) ==
    IF n.k = "BinaryExprAST"
        THEN InOrder(n.LHS) \o <<[op |-> n.Op]>> \o InOrder(n.RHS)
        ELSE <<n>>

\* Every operator has to its left only operators that bind at least as
\* tightly as itself, and to its right only operators that bind tighter.
RECURSIVE Grouped(_)
Grouped(n) ==
    n.k = "BinaryExprAST" =>
        /\ Grouped(n.LHS)
        /\ Grouped(n.RHS)
        /\ n.LHS.k = "BinaryExprAST" =>
              StandardPrecedence(n.LHS.Op) >= StandardPrecedence(n.Op)
        /\ n.RHS.k = "BinaryExprAST" =>
              StandardPrecedence(n.RHS.Op) > StandardPrecedence(n.Op)

Bin(c, l, r) == BinaryExprAST(Ord(c), l, r)

ExampleMixed == Join(<<wa, PLUS, wb, <<"*">>, <<"c">>, <<"-">>, <<"d">>>>)
ExampleMixedTree ==
    Bin("-", Bin("+", Var(wa), Bin("*", Var(wb), Var(<<"c">>))), Var(<<"d">>))
ExampleMinus == Join(<<w1, <<"-">>, w2, <<"-">>, w3>>)
ExampleMinusTree == Bin("-", Bin("-", Num(1), Num(2)), Num(3))

\* C1: when ParseExpression has returned on an input operand (op operand)*,
\* its tree has the input's operands and operators in their order, groups
\* equal precedences to the left and higher precedences first, and the
\* lookahead is the end of the input; a + b * c - d is (a + (b*c)) - d and
\* 1 - 2 - 3 is (1-2)-3.
C1_PrecedenceClimbing ==
    (At("ParseTopLevelExpr", "expr") /\ IsChain(Tokens)) =>
        /\ ret # Null
        /\ InOrder(ret) = ChainItems(Tokens)
        /\ Grouped(ret)
        /\ LookaheadIs(Len(Tokens))
        /\ input = ExampleMixed => ret = ExampleMixedTree
        /\ input = ExampleMinus => ret = ExampleMinusTree

C1_Witness ==
    /\ At("ParseTopLevelExpr", "expr")
    /\ input = ExampleMixed
    /\ ret = ExampleMixedTree

---------------------------------------------------------------------------
(* C4: function definitions.                                               *)

\* The identifier tokens of T in a row from the i-th on.
RECURSIVE IdentRun(_, _)
IdentRun(T, i) ==
    IF i <= Len(T) /\ T[i].CurTok = tok_identifier
        THEN <<T[i].identifierStr>> \o IdentRun(T, i + 1)
        ELSE <<>>

TokAt(T, i) == IF i <= Len(T) THEN T[i].CurTok ELSE tok_eof

\* The input after the i-th token and the separator that follows it.
RestAfter(T, i) ==
    IF i <= Len(T) THEN SubSeq(input, T[i].pos + 1, Len(input)) ELSE <<>>

\* The bodies whose tree is written down here; Null: the body does not parse.
BodyTree(rest) ==
    CASE rest = Join(<<w1>>) -> Num(1)
      [] rest = Join(<<wa, PLUS, wb>>) -> Bin("+", Var(wa), Var(wb))
      [] rest = Join(<<wg, LP, wa, RP>>) -> CallExprAST(wg, <<Var(wa)>>)
      [] rest = Join(<<RP>>) -> Null
      [] rest = Join(<<LP, w1>>) -> Null
      [] rest = <<>> -> Null

KnownBody(rest) ==
    rest \in {Join(<<w1>>), Join(<<wa, PLUS, wb>>), Join(<<wg, LP, wa, RP>>),
              Join(<<RP>>), Join(<<LP, w1>>), <<>>}

\* FUNC name ( p1 ... pn ) is what the input starts with.
HasPrototype(T) ==
    /\ TokAt(T, 1) = tok_func
    /\ TokAt(T, 2) = tok_identifier
    /\ TokAt(T, 3) = Ord("(")
    /\ TokAt(T, 4 + Len(IdentRun(T, 4))) = Ord(")")

\* C4: when ParseDefinition has returned on an input that starts with FUNC,
\* it returned a failure if the name, the '(' or the ')' is missing or the
\* body does not parse, and otherwise the FunctionAST of the name, of the
\* parameter names in their order and of the body's tree.
C4_FunctionDefinition ==
    (At("HandleDefinition", "parsed") /\ FirstUnit) =>
        LET T == Tokens
            n == Len(IdentRun(T, 4))
            rest == RestAfter(T, 4 + n) IN
        IF ~HasPrototype(T) THEN ret = Null
        ELSE KnownBody(rest) =>
            IF BodyTree(rest) = Null THEN ret = Null
            ELSE ret = FunctionAST(
                    PrototypeAST(T[2].identifierStr, IdentRun(T, 4), FALSE, 30),
                    BodyTree(rest))

C4_Witness ==
    /\ At("HandleDefinition", "parsed")
    /\ input = Join(<<kwFUNC, wadd, LP, wa, wb, RP, wa, PLUS, wb>>)
    /\ ret = FunctionAST(PrototypeAST(wadd, <<wa, wb>>, FALSE, 30),
                         Bin("+", Var(wa), Var(wb)))

\* A definition without its ')' has been refused.
C4_WitnessRefused ==
    /\ At("HandleDefinition", "parsed")
    /\ input = Join(<<kwFUNC, wf, LP, wa, w1>>)
    /\ ret = Null

---------------------------------------------------------------------------
(* C5: identifiers and calls.                                              *)

\* A number, or an identifier that no '(' follows.
IsSimpleOperand(T, i) ==
    \/ TokAt(T, i) = tok_number
    \/ TokAt(T, i) = tok_identifier /\ TokAt(T, i + 1) # Ord("(")

\* The tokens no expression starts with, among those of the inputs.
StartsNoExpression(tok) ==
    tok \in {Ord(")"), Ord(","), Ord(";"), tok_eof} \cup OpCodes

\* The argument that starts at the i-th token: an operand, or operand +
\* operand.  what: "tree" (the argument, and the token after it), "fail"
\* (no expression there) or "other" (a form not described here).
Argument(T, i) ==
    IF StartsNoExpression(TokAt(T, i)) THEN [what |-> "fail"]
    ELSE IF ~IsSimpleOperand(T, i) THEN [what |-> "other"]
    ELSE IF TokAt(T, i + 1) \notin OpCodes THEN
        [what |-> "tree", tree |-> Leaf(T[i]), next |-> i + 1]
    ELSE IF StartsNoExpression(TokAt(T, i + 2)) THEN [what |-> "fail"]
    ELSE IF /\ TokAt(T, i + 1) = Ord("+")
            /\ IsSimpleOperand(T, i + 2)
            /\ TokAt(T, i + 3) \notin OpCodes THEN
        [what |-> "tree", tree |-> Bin("+", Leaf(T[i]), Leaf(T[i + 2])),
         next |-> i + 3]
    ELSE [what |-> "other"]

\* The argument list whose next argument starts at the i-th token, args
\* being the arguments before it: arguments with a ',' between two of them
\* and a ')' after the last.
RECURSIVE ArgumentList(_, _, _)
ArgumentList(T, i, args) ==
    LET a == Argument(T, i) IN
    IF a.what # "tree" THEN a
    ELSE IF TokAt(T, a.next) = Ord(")") THEN
        [what |-> "tree", args |-> Append(args, a.tree), next |-> a.next + 1]
    ELSE IF TokAt(T, a.next) = Ord(",") THEN
        ArgumentList(T, a.next + 1, Append(args, a.tree))
    ELSE [what |-> "fail"]

\* What the grammar makes of an input that starts with identifier '('.
CallOf(T) ==
    IF TokAt(T, 3) = Ord(")") THEN [what |-> "tree", args |-> <<>>, next |-> 4]
    ELSE ArgumentList(T, 3, <<>>)

\* ParseIdentifierExpr has returned to the ParsePrimary that parses the
\* first primary expression of the input.
FirstPrimaryReturned(fn) ==
    /\ Len(stack) = 6
    /\ stack[3].fn = "HandleTopLevelExpression"
    /\ At("ParsePrimary", fn)
    /\ FirstUnit

\* C5: on an input that starts with an identifier, ParseIdentifierExpr
\* returns a VariableExprAST if no '(' follows, the CallExprAST of the
\* comma-separated arguments up to the ')' if one does, with the lookahead
\* on the token after the construct, and a failure if an argument is
\* followed by something other than ',' or ')', if a comma is followed by
\* no argument or if the ')' is missing.
C5_IdentifierOrCall ==
    (FirstPrimaryReturned("ParseIdentifierExpr")) =>
        LET T == Tokens IN
        IF TokAt(T, 2) # Ord("(")
            THEN ret = Var(T[1].identifierStr) /\ LookaheadIs(2)
            ELSE LET c == CallOf(T) IN
                 /\ c.what = "tree" =>
                       /\ ret = CallExprAST(T[1].identifierStr, c.args)
                       /\ LookaheadIs(c.next)
                 /\ c.what = "fail" => ret = Null

C5_Witness ==
    /\ FirstPrimaryReturned("ParseIdentifierExpr")
    /\ input = Join(<<wf, LP, w1, COMMA, wa, COMMA, w2, PLUS, wb, RP, SEMI>>)
    /\ ret = CallExprAST(wf, <<Num(1), Var(wa), Bin("+", Num(2), Var(wb))>>)
    /\ CurTok = Ord(";")

\* f ( 1 a ) ; has been refused.
C5_WitnessNoComma ==
    /\ FirstPrimaryReturned("ParseIdentifierExpr")
    /\ input = Join(<<wf, LP, w1, wa, RP, SEMI>>)
    /\ ret = Null

---------------------------------------------------------------------------
(* C2: recovery after a definition that does not parse.                    *)

ErrorLines ==
    {"Error: Expected function name in prototype",
     "Error: Expected '(' in prototype",
     "Error: Expected ')' in prototype",
     "Error: expected ')'",
     "Error: Expected ')' or ',' in argument list",
     "Error: unknown token when expecting an expression"}

\* What stderr holds besides the prompts.
Reports == SelectSeq(log, LAMBDA s : s # "ready> ")

TwoErrorsThenDefinition ==
    /\ Len(log) < MaxLog
    /\ Len(Reports) = 3
    /\ Reports[1] \in ErrorLines
    /\ Reports[2] \in ErrorLines
    /\ Reports[3] = "Parsed a function definition."

Exited == stack = <<>>

---------------------------------------------------------------------------
(* C3: termination.                                                        *)

\* C3: whatever the input, the top-level loop reaches the end of the input
\* and main returns.
C3_Terminates == <>Exited

---------------------------------------------------------------------------
(* C6: IF.                                                                 *)

\* The node the claim describes; Null for a branch that is absent.
IfNode(c, t, e) ==
    [k |-> "If", condition |-> c, thenBranch |-> t, elseBranch |-> e]

\* IF c THEN t FI with operands c and t is what the input starts with.
IfThenFi(T) ==
    /\ TokAt(T, 1) = tok_if
    /\ IsSimpleOperand(T, 2)
    /\ TokAt(T, 3) = tok_then
    /\ IsSimpleOperand(T, 4)
    /\ TokAt(T, 5) = tok_fi

\* IF c THEN t ELSE e FI with operands c, t and e is.
IfThenElseFi(T) ==
    /\ TokAt(T, 1) = tok_if
    /\ IsSimpleOperand(T, 2)
    /\ TokAt(T, 3) = tok_then
    /\ IsSimpleOperand(T, 4)
    /\ TokAt(T, 5) = tok_else
    /\ IsSimpleOperand(T, 6)
    /\ TokAt(T, 7) = tok_fi

\* IF c with an operand c and no THEN after it is.
IfWithoutThen(T) ==
    /\ TokAt(T, 1) = tok_if
    /\ IsSimpleOperand(T, 2)
    /\ TokAt(T, 3) # tok_then

\* ParseIfExpr is running, or a function it called.
InParseIfExpr == \E i \in 1..Len(stack) : stack[i].fn = "ParseIfExpr"

\* C6: of an input that starts with IF c THEN t FI or IF c THEN t ELSE e FI,
\* ParseIfExpr reads no token beyond the one that follows FI and returns,
\* with that token as the lookahead, the node of c, t and e; of an input
\* that starts with IF c and no THEN it returns a failure.
C6_IfExpression ==
    LET T == Tokens IN
    /\ (FirstUnit /\ InParseIfExpr /\ IfThenFi(T)) => pos <= T[6].pos
    /\ (FirstUnit /\ InParseIfExpr /\ IfThenElseFi(T)) => pos <= T[8].pos
    /\ (FirstPrimaryReturned("ParseIfExpr") /\ IfThenFi(T)) =>
          /\ ret = IfNode(Leaf(T[2]), Leaf(T[4]), Null)
          /\ LookaheadIs(6)
    /\ (FirstPrimaryReturned("ParseIfExpr") /\ IfThenElseFi(T)) =>
          /\ ret = IfNode(Leaf(T[2]), Leaf(T[4]), Leaf(T[6]))
          /\ LookaheadIs(8)
    /\ (FirstPrimaryReturned("ParseIfExpr") /\ IfWithoutThen(T)) => ret = Null

---------------------------------------------------------------------------
(* C7: the assignment symbol.                                              *)

\* C7: the lexer never hands out ':' as a token of its own when the
\* character after it is '='.
C7_AssignToken == ~(CurTok = Ord(":") /\ lastChar = "=")

---------------------------------------------------------------------------
(* C8: failures are handed on.                                             *)

\* The positions at which a parse function has just got the result of a
\* parse it called.
AfterSubParse ==
    {<<"ParseDefinition", "body">>, <<"ParseTopLevelExpr", "expr">>,
     <<"ParseExpression", "lhs">>, <<"ParseExpression", "return">>,
     <<"ParseBinOpRHS", "rhs">>, <<"ParseBinOpRHS", "nested">>,
     <<"ParseParenExpr", "v">>, <<"ParseIdentifierExpr", "arg">>,
     <<"ParseReturnExpr", "returnVal">>, <<"ParsePrintExpr", "return">>}

\* The running parse function holds the failure of a parse it called: it
\* has just got it, or it has kept it as its condition.
HoldsFailure ==
    /\ Len(stack) > 0
    /\ \/ <<Top.fn, Top.pc>> \in AfterSubParse /\ ret = Null
       \/ Top.fn = "ParsePrimary" /\ Top.pc # "start" /\ ret = Null
       \/ /\ Top.fn \in {"ParseIfExpr", "ParseWhileExpr"}
          /\ Top.pc \notin {"start", "condition"}
          /\ Top.condition = Null

\* C8: a parse function that holds the failure of a parse it called
\* returns a failure.
C8_FailurePropagates ==
    [][(HoldsFailure /\ stack' = Under) => ret' = Null]_vars

---------------------------------------------------------------------------
(* C9: the precedence table.                                               *)

\* C9: once main has installed the five operators, the table stays as it
\* is: the same keys, the same values.
C9_TableUnchanged ==
    ~At("main", "start") => BinopPrecedence = InstallBinops

---------------------------------------------------------------------------
(* C10: the lookahead after a construct.                                   *)

\* The place of the first token after the construct the input starts with;
\* 0 if it starts with none of the forms listed.
ConstructEnd(T) ==
    CASE TokAt(T, 1) = tok_number -> 2
      [] TokAt(T, 1) = tok_identifier /\ TokAt(T, 2) # Ord("(") -> 2
      [] /\ TokAt(T, 1) = tok_identifier
         /\ TokAt(T, 2) = Ord("(")
         /\ TokAt(T, 3) = Ord(")") -> 4
      [] /\ TokAt(T, 1) = Ord("(")
         /\ IsSimpleOperand(T, 2)
         /\ TokAt(T, 3) = Ord(")") -> 4
      [] TokAt(T, 1) = tok_var /\ TokAt(T, 2) = tok_identifier -> 3
      [] /\ TokAt(T, 1) = tok_while
         /\ IsSimpleOperand(T, 2)
         /\ TokAt(T, 3) = tok_do
         /\ IsSimpleOperand(T, 4)
         /\ TokAt(T, 5) = tok_done -> 6
      [] TokAt(T, 1) \in {tok_return, tok_print} /\ IsSimpleOperand(T, 2) -> 3
      [] OTHER -> 0

\* C10: when the parse of the construct the input starts with returns a
\* node, the lookahead is the first token after the construct.
C10_LookaheadAfterConstruct ==
    (/\ Len(stack) = 6
     /\ stack[3].fn = "HandleTopLevelExpression"
     /\ Top.fn = "ParsePrimary"
     /\ Top.pc # "start"
     /\ FirstUnit
     /\ ret # Null
     /\ ConstructEnd(Tokens) # 0) => LookaheadIs(ConstructEnd(Tokens))

===========================================================================
